---- MODULE Spec2Model ----
(***************************************************************************)
(* Model of the DMARC demo report generator: the report assembler of       *)
(* demo_reports.py (get_report_data and its helpers), the generation loop  *)
(* of main, and generate_report / validate of rua.py.                      *)
(*                                                                         *)
(* The code is Python 2: dict.values() is a list, str is bytes.            *)
(***************************************************************************)
EXTENDS Integers, Sequences, FiniteSets, TLC

(***************************************************************************)
(* Bounds of the model.                                                    *)
(***************************************************************************)
\* main sets num_days = 365; the loop is modelled over NumDays days.
NumDays == 2
\* the assembler is applied to the first MaxDayOffset + 1 days from start_day.
MaxDayOffset == 1

(***************************************************************************)
(* Program constants and data.                                             *)
(***************************************************************************)
\* Python's None.
None == "None"

\* datetime(2017, 1, 1), as days since 1970-01-01.
start_day == 17167
SecondsPerDay == 86400

foreign_domain == "foreign-demo-domain.us"
foreign_policy == "reject"
my_domain == "my-demo-domain.at"
my_policy == "none"

base_path == "reports"
incoming_path == base_path \o "/" \o "incoming"
outgoing_path == base_path \o "/" \o "outgoing"

dkim_result_choices ==
  <<None, "none", "pass", "fail", "policy", "neutral", "temperror", "permerror">>
spf_result_choices ==
  <<"none", "neutral", "pass", "fail", "softfail", "temperror", "permerror">>

message_count_min == 0
message_count_max == 100

\* The values random.randint(message_count_min, message_count_max) is
\* sampled at: both ends of the range.
MessageCounts == {message_count_min, message_count_max}

\* Country code -> IP string, as get_country_to_ip_dict builds it from the
\* csv file (one sample address per country).
ip_data == [US |-> "8.8.8.8", AT |-> "193.170.0.1"]

\* utcoffset (seconds east of UTC) of the local timezone of the process:
\* US Eastern, UTC, Central European.
UtcOffsets == {0 - 18000, 0, 3600}

Range(s) == {s[i] : i \in DOMAIN s}

(***************************************************************************)
(* Python dict helpers.                                                    *)
(***************************************************************************)
\* d[k] = v
SetItem(d, k, v) == (k :> v) @@ d

\* Truth value of a str-or-None: None and "" are false.
Truthy(x) == x # None /\ x # ""

(***************************************************************************)
(* The report assembler (pure functions).                                  *)
(***************************************************************************)
\* int(day.date().strftime("%s")): "%s" is the glibc extension that formats
\* mktime() of the naive local midnight, i.e. seconds since the epoch of
\* 00:00 of `day` in the process's local timezone.
begin_of_day(day, utcoffset) == day * SecondsPerDay - utcoffset

\* Mutant of get_report_metadata: the end of the day without the "- 1".
get_report_metadata_full_day(reporter, reportee, day, utcoffset) ==
  LET begin == begin_of_day(day, utcoffset)
      end == begin + SecondsPerDay
  IN [org_name |-> reporter,
      org_email |-> "postmaster@" \o reporter,
      extra_contact_info |-> "www." \o reporter,
      report_id |-> reportee \o ":" \o ToString(end),
      date_range |-> [begin |-> begin, end |-> end]]

get_report_metadata(reporter, reportee, day, utcoffset) ==
  LET begin == begin_of_day(day, utcoffset)
      end == begin + SecondsPerDay - 1
  IN [org_name |-> reporter,
      org_email |-> "postmaster@" \o reporter,
      extra_contact_info |-> "www." \o reporter,
      report_id |-> reportee \o ":" \o ToString(end),
      date_range |-> [begin |-> begin, end |-> end]]

get_policy_published(reportee, policy) ==
  [domain |-> reportee, adkim |-> "r", aspf |-> "r",
   p |-> policy, sp |-> policy, pct |-> 100]

\* Mutant of aligned_result: a raw result "none" aligns as "pass" too.
aligned_result_none_passes(raw_result) ==
  IF raw_result \in {"pass", "none"} THEN "pass" ELSE "fail"

aligned_result(raw_result) == IF raw_result = "pass" THEN "pass" ELSE "fail"

\* Mutant of get_disposition: only the aligned DKIM result is looked at.
get_disposition_dkim_only(aligned_dkim_result, aligned_spf_result, policy) ==
  IF aligned_dkim_result = "pass" THEN "none" ELSE policy

\* Mutant of get_disposition: both aligned results have to pass.
get_disposition_both(aligned_dkim_result, aligned_spf_result, policy) ==
  IF aligned_dkim_result = "pass" /\ aligned_spf_result = "pass"
  THEN "none"
  ELSE policy

get_disposition(aligned_dkim_result, aligned_spf_result, policy) ==
  IF aligned_dkim_result = "pass" \/ aligned_spf_result = "pass"
  THEN "none"
  ELSE policy

get_row(reportee, policy, dkim_result, spf_result, message_count, source_ip) ==
  LET aligned_dkim_result == aligned_result(dkim_result)
      aligned_spf_result == aligned_result(spf_result)
      disposition == get_disposition(aligned_dkim_result, aligned_spf_result,
                                     policy)
  IN [source_ip |-> source_ip,
      count |-> message_count,
      policy_evaluated |-> [disposition |-> disposition,
                            dkim |-> aligned_dkim_result,
                            spf |-> aligned_spf_result]]

get_identifiers(reporter, reportee) ==
  [envelope_to |-> reporter, header_from |-> reportee]

\* Mutant of get_auth_results: the DKIM entry is appended unconditionally.
get_auth_results_always_dkim(reportee, dkim_result, spf_result) ==
  [dkim |-> <<[domain |-> reportee, result |-> dkim_result]>>,
   spf |-> <<[domain |-> reportee, result |-> spf_result]>>]

get_auth_results(reportee, dkim_result, spf_result) ==
  LET dkim == IF Truthy(dkim_result)
              THEN <<[domain |-> reportee, result |-> dkim_result]>>
              ELSE <<>>
      spf == <<[domain |-> reportee, result |-> spf_result]>>
  IN [dkim |-> dkim, spf |-> spf]

get_record(kw) ==
  [row |-> get_row(kw.reportee, kw.policy, kw.dkim_result, kw.spf_result,
                   kw.message_count, kw.source_ip),
   identifiers |-> get_identifiers(kw.reporter, kw.reportee),
   auth_results |-> get_auth_results(kw.reportee, kw.dkim_result,
                                     kw.spf_result)]

\* get_report_data(**kw); utcoffset is the timezone of the calling process.
get_report_data(kw, utcoffset) ==
  [report_metadata |-> get_report_metadata(kw.reporter, kw.reportee, kw.day,
                                           utcoffset),
   policy_published |-> get_policy_published(kw.reportee, kw.policy),
   records |-> <<get_record(kw)>>]

\* Keyword arguments the helpers of get_report_data name as parameters: a
\* call without one of them raises TypeError.
RequiredKeys == {"reporter", "reportee", "policy", "day", "dkim_result",
                 "spf_result", "message_count", "source_ip"}

(***************************************************************************)
(* State.                                                                  *)
(***************************************************************************)
VARIABLES
  pc,                 \* position in main / in the assembler call
  utcoffset,          \* local timezone of the process (environment)
  schema,             \* REPORT_SCHEMA, read from rua.xsd at import
  dir_i,              \* how many elements the outer for loop has taken
  day_i,              \* how many days the inner for loop has taken
  report_vars,        \* the dict of the current direction, mutated per day
  fresh,              \* keys of report_vars assigned in the current iteration
  report_data,        \* main's report_data
  report_xml_string,  \* main's report_xml_string
  report_name,        \* main's report_name
  vstate,             \* locals of validate: which objects have been created
  progress,           \* stages the current report has passed
  files,              \* paths of the files written so far
  writes,             \* number of fp.write calls so far
  err                 \* the exception that ended the run, if any

vars == <<pc, utcoffset, schema, dir_i, day_i, report_vars, fresh, report_data,
          report_xml_string, report_name, vstate, progress, files, writes, err>>

\* A name that is not bound yet.
Unbound == [unbound |-> TRUE]
NoError == [type |-> None, at |-> None]
NoLocals == [xml |-> FALSE, schema_xml |-> FALSE, schema |-> FALSE]

\* What matters of an XSD document to validate: whether it is well-formed
\* XML and whether it is a valid schema.
Schemas == {[wellformed |-> TRUE, valid |-> TRUE],
            [wellformed |-> TRUE, valid |-> FALSE],
            [wellformed |-> FALSE, valid |-> FALSE]}

\* What matters of a rendered report to validate: whether the bytes are
\* well-formed XML and whether the document conforms to the schema.
XmlStrings == {[wellformed |-> TRUE, conforms |-> TRUE],
               [wellformed |-> TRUE, conforms |-> FALSE],
               [wellformed |-> FALSE, conforms |-> FALSE]}

\* The list main's outer loop iterates over.
Directions ==
  <<[reporter |-> foreign_domain, reportee |-> my_domain, policy |-> my_policy,
     base_path |-> incoming_path, legitimate_country |-> "US"],
    [reporter |-> my_domain, reportee |-> foreign_domain,
     policy |-> foreign_policy, base_path |-> outgoing_path,
     legitimate_country |-> "AT"]>>

\* get_report_days(start_day, num_days)
get_report_days(start, num_days) == [i \in 1..num_days |-> start + (i - 1)]

Raise(type) ==
  /\ err' = [type |-> type, at |-> pc]
  /\ pc' = "raised"

(***************************************************************************)
(* main: the generation loop.                                              *)
(***************************************************************************)
Init ==
  /\ pc = "for_direction"
  /\ utcoffset \in UtcOffsets
  /\ schema \in Schemas
  /\ dir_i = 0
  /\ day_i = 0
  /\ report_vars = Unbound
  /\ fresh = {}
  /\ report_data = Unbound
  /\ report_xml_string = Unbound
  /\ report_name = Unbound
  /\ vstate = NoLocals
  /\ progress = {}
  /\ files = {}
  /\ writes = 0
  /\ err = NoError

\* for report_vars in [...]: take the next dict of the list, or leave main.
ForDirection ==
  /\ pc = "for_direction"
  /\ IF dir_i < Len(Directions)
     THEN /\ dir_i' = dir_i + 1
          /\ report_vars' = Directions[dir_i + 1]
          /\ day_i' = 0
          /\ pc' = "for_day"
     ELSE /\ pc' = "exit"
          /\ UNCHANGED <<dir_i, report_vars, day_i>>
  /\ UNCHANGED <<utcoffset, schema, fresh, report_data, report_xml_string,
                 report_name, vstate, progress, files, writes, err>>

\* for day in get_report_days(start_day, num_days): report_vars["day"] = day
ForDay ==
  /\ pc = "for_day"
  /\ IF day_i < NumDays
     THEN /\ day_i' = day_i + 1
          /\ report_vars' =
               SetItem(report_vars, "day",
                       get_report_days(start_day, NumDays)[day_i + 1])
          /\ fresh' = {"day"}
          /\ progress' = {}
          /\ pc' = "choose_dkim"
     ELSE /\ pc' = "for_direction"
          /\ UNCHANGED <<day_i, report_vars, fresh, progress>>
  /\ UNCHANGED <<utcoffset, schema, dir_i, report_data, report_xml_string,
                 report_name, vstate, files, writes, err>>

\* report_vars[key] = value, then go on at `next`.
Assign(key, value, next) ==
  /\ report_vars' = SetItem(report_vars, key, value)
  /\ fresh' = fresh \cup {key}
  /\ pc' = next
  /\ UNCHANGED <<utcoffset, schema, dir_i, day_i, report_data,
                 report_xml_string, report_name, vstate, progress, files,
                 writes, err>>

\* report_vars["dkim_result"] = random.choice(dkim_result_choices)
ChooseDkimResult ==
  /\ pc = "choose_dkim"
  /\ \E r \in Range(dkim_result_choices) :
       Assign("dkim_result", r, "choose_spf")

\* report_vars["spf_result"] = random.choice(spf_result_choices)
ChooseSpfResult ==
  /\ pc = "choose_spf"
  /\ \E r \in Range(spf_result_choices) :
       Assign("spf_result", r, "choose_count")

\* report_vars["message_count"] = random.randint(min, max)
ChooseMessageCount ==
  /\ pc = "choose_count"
  /\ \E n \in MessageCounts : Assign("message_count", n, "assign_ip")

\* Mutant of AssignSourceIp: the else branch assigns nothing.
AssignSourceIp_no_else ==
  /\ pc = "assign_ip"
  /\ IF report_vars.spf_result = "pass"
     THEN Assign("source_ip", ip_data[report_vars.legitimate_country],
                 "assemble")
     ELSE /\ pc' = "assemble"
          /\ UNCHANGED <<utcoffset, schema, dir_i, day_i, report_vars, fresh,
                         report_data, report_xml_string, report_name, vstate,
                         progress, files, writes, err>>

\* Assign IP address based on SPF result.
AssignSourceIp ==
  /\ pc = "assign_ip"
  /\ IF report_vars.spf_result = "pass"
     THEN Assign("source_ip", ip_data[report_vars.legitimate_country],
                 "assemble")
     ELSE \E ip \in Range(ip_data) : Assign("source_ip", ip, "assemble")

\* report_data = get_report_data(**report_vars)
Assemble ==
  /\ pc = "assemble"
  /\ IF RequiredKeys \subseteq DOMAIN report_vars
     THEN /\ report_data' = get_report_data(report_vars, utcoffset)
          /\ progress' = progress \cup {"assembled"}
          /\ pc' = "render"
          /\ UNCHANGED err
     ELSE /\ Raise("TypeError")
          /\ UNCHANGED <<report_data, progress>>
  /\ UNCHANGED <<utcoffset, schema, dir_i, day_i, report_vars, fresh,
                 report_xml_string, report_name, vstate, files, writes>>

(***************************************************************************)
(* rua.py: rendering and validation.                                       *)
(***************************************************************************)
\* Mutant of get_report_filename_from_context: a format without the date
\* range.
get_report_filename_without_dates(context) ==
  context.report_metadata.org_name \o "!" \o
  context.policy_published.domain \o ".xml"

\* REPORT_FILENAME_FORMAT.format(org_name=..., domain=..., begin=..., end=...)
get_report_filename_from_context(context) ==
  context.report_metadata.org_name \o "!" \o
  context.policy_published.domain \o "!" \o
  ToString(context.report_metadata.date_range.begin) \o "!" \o
  ToString(context.report_metadata.date_range.end) \o ".xml"

\* os.path.join(report_vars["base_path"], report_name)
path_join(dir, name) == dir \o "/" \o name

\* report_xml_string, report_name = generate_report(report_data)
\* The template rua.xml.j2 is data outside the code: what it renders is any
\* byte string, and rendering may raise.
GenerateReport ==
  /\ pc = "render"
  /\ \/ /\ \E x \in XmlStrings : report_xml_string' = x
        /\ report_name' = get_report_filename_from_context(report_data)
        /\ progress' = progress \cup {"rendered"}
        /\ pc' = "validate_report"
        /\ UNCHANGED err
     \/ /\ Raise("TemplateError")
        /\ UNCHANGED <<report_xml_string, report_name, progress>>
  /\ UNCHANGED <<utcoffset, schema, dir_i, day_i, report_vars, fresh,
                 report_data, vstate, files, writes>>

\* validate_report(report_xml_string): enters validate(dmarc_report,
\* REPORT_SCHEMA) with fresh locals.
ValidateReport ==
  /\ pc = "validate_report"
  /\ vstate' = NoLocals
  /\ pc' = "parse_xml"
  /\ UNCHANGED <<utcoffset, schema, dir_i, day_i, report_vars, fresh,
                 report_data, report_xml_string, report_name, progress, files,
                 writes, err>>

\* One statement of validate: when `ok`, the local `made` now exists and
\* control passes to `next`; otherwise the statement raises `type`.
ValidateStep(ok, made, next, type) ==
  /\ IF ok
     THEN /\ vstate' = [vstate EXCEPT ![made] = TRUE]
          /\ pc' = next
          /\ UNCHANGED err
     ELSE /\ Raise(type)
          /\ UNCHANGED vstate
  /\ UNCHANGED <<utcoffset, schema, dir_i, day_i, report_vars, fresh,
                 report_data, report_xml_string, report_name, progress, files,
                 writes>>

\* Mutant of ParseXml: a recovering parser that accepts any bytes.
ParseXml_recover ==
  /\ pc = "parse_xml"
  /\ ValidateStep(TRUE, "xml", "parse_xsd", "XMLSyntaxError")

\* xml = etree.fromstring(xml_data)
ParseXml ==
  /\ pc = "parse_xml"
  /\ ValidateStep(report_xml_string.wellformed, "xml", "parse_xsd",
                  "XMLSyntaxError")

\* schema_xml = etree.fromstring(xsd_data)
ParseXsd ==
  /\ pc = "parse_xsd"
  /\ ValidateStep(schema.wellformed, "schema_xml", "build_schema",
                  "XMLSyntaxError")

\* schema = etree.XMLSchema(schema_xml)
BuildSchema ==
  /\ pc = "build_schema"
  /\ ValidateStep(schema.valid, "schema", "assert_valid",
                  "XMLSchemaParseError")

\* Mutant of AssertValid: the outcome of the validation is ignored.
AssertValid_ignored ==
  /\ pc = "assert_valid"
  /\ progress' = IF report_xml_string.conforms
                 THEN progress \cup {"validated"}
                 ELSE progress
  /\ pc' = "write"
  /\ UNCHANGED <<utcoffset, schema, dir_i, day_i, report_vars, fresh,
                 report_data, report_xml_string, report_name, vstate, files,
                 writes, err>>

\* schema.assertValid(xml); on success validate returns to main.
AssertValid ==
  /\ pc = "assert_valid"
  /\ IF report_xml_string.conforms
     THEN /\ progress' = progress \cup {"validated"}
          /\ pc' = "write"
          /\ UNCHANGED err
     ELSE /\ Raise("DocumentInvalid")
          /\ UNCHANGED progress
  /\ UNCHANGED <<utcoffset, schema, dir_i, day_i, report_vars, fresh,
                 report_data, report_xml_string, report_name, vstate, files,
                 writes>>

\* with open(report_path, "w") as fp: fp.write(report_xml_string)
WriteReport ==
  /\ pc = "write"
  /\ files' = files \cup {path_join(report_vars.base_path, report_name)}
  /\ writes' = writes + 1
  /\ pc' = "for_day"
  /\ UNCHANGED <<utcoffset, schema, dir_i, day_i, report_vars, fresh,
                 report_data, report_xml_string, report_name, vstate, progress,
                 err>>

Next ==
  \/ ForDirection
  \/ ForDay
  \/ ChooseDkimResult
  \/ ChooseSpfResult
  \/ ChooseMessageCount
  \/ AssignSourceIp
  \/ Assemble
  \/ GenerateReport
  \/ ValidateReport
  \/ ParseXml
  \/ ParseXsd
  \/ BuildSchema
  \/ AssertValid
  \/ WriteReport

Spec == Init /\ [][Next]_vars

(***************************************************************************)
(* The assembler on its own: get_report_data applied to one set of keyword *)
(* arguments, in a process with some local timezone.  The arguments range  *)
(* over the values main draws from, the third policy "quarantine", and     *)
(* values outside the documented ranges.                                   *)
(***************************************************************************)
Policies == {"none", "quarantine", "reject"}
DkimResults == Range(dkim_result_choices) \ {None}
SpfResults == Range(spf_result_choices)

\* Arguments outside the documented ranges.
BadDkimResults == {"", "bogus"}
BadSpfResults == {"bogus"}
BadMessageCounts == {0 - 1}

AsmArguments ==
  {[reporter |-> d.reporter, reportee |-> d.reportee, policy |-> p,
    day |-> day, dkim_result |-> dk, spf_result |-> sp, message_count |-> n,
    source_ip |-> ip] :
     d \in Range(Directions), p \in Policies,
     day \in start_day..(start_day + MaxDayOffset),
     dk \in Range(dkim_result_choices) \cup BadDkimResults,
     sp \in SpfResults \cup BadSpfResults,
     n \in MessageCounts \cup BadMessageCounts,
     ip \in Range(ip_data)}

AsmInit ==
  /\ pc = "call"
  /\ utcoffset \in UtcOffsets
  /\ schema \in {s \in Schemas : s.valid}
  /\ dir_i = 0
  /\ day_i = 0
  /\ report_vars \in AsmArguments
  /\ fresh = {}
  /\ report_data = Unbound
  /\ report_xml_string = Unbound
  /\ report_name = Unbound
  /\ vstate = NoLocals
  /\ progress = {}
  /\ files = {}
  /\ writes = 0
  /\ err = NoError

\* report_data = get_report_data(**kw): no helper checks its arguments, so
\* the call returns for every kw that has the required keys.
AsmCall ==
  /\ pc = "call"
  /\ report_data' = get_report_data(report_vars, utcoffset)
  /\ progress' = progress \cup {"assembled"}
  /\ pc' = "returned"
  /\ UNCHANGED <<utcoffset, schema, dir_i, day_i, report_vars, fresh,
                 report_xml_string, report_name, vstate, files, writes, err>>

AsmNext == AsmCall

AsmSpec == AsmInit /\ [][AsmNext]_vars

(***************************************************************************)
(* Properties of the assembler, checked under AsmSpec.                     *)
(***************************************************************************)
\* The one record of the report the call returned, and its parts.
TheRecord == report_data.records[1]
PolicyEvaluated == TheRecord.row.policy_evaluated
AuthResults == TheRecord.auth_results
Returned == pc = "returned"

\* C1: in every report get_report_data returns, for every raw DKIM result
\* (absent or any value), raw SPF result and policy, the disposition of the
\* row is "none" when the aligned DKIM or the aligned SPF result of that row
\* is "pass", and the published policy p of the same report otherwise; raw
\* DKIM "pass", raw SPF "fail", policy "reject" gives "none", "pass", "fail".
C1_Disposition ==
  Returned =>
    /\ PolicyEvaluated.disposition =
         IF PolicyEvaluated.dkim = "pass" \/ PolicyEvaluated.spf = "pass"
         THEN "none"
         ELSE report_data.policy_published.p
    /\ report_data.policy_published.p = report_vars.policy
    /\ (/\ report_vars.dkim_result = "pass"
        /\ report_vars.spf_result = "fail"
        /\ report_vars.policy = "reject")
       => PolicyEvaluated =
            [disposition |-> "none", dkim |-> "pass", spf |-> "fail"]

C1_Witness ==
  /\ Returned
  /\ report_vars.dkim_result = "pass"
  /\ report_vars.spf_result = "fail"
  /\ report_vars.policy = "reject"
  /\ PolicyEvaluated.disposition = "none"

\* C2, as claimed: the disposition is "none" if and only if the aligned DKIM
\* or the aligned SPF result is "pass".
C2_NoneIffAlignedPass ==
  Returned =>
    (PolicyEvaluated.disposition = "none"
       <=> (PolicyEvaluated.dkim = "pass" \/ PolicyEvaluated.spf = "pass"))

\* C2, amended: the disposition is "none" if and only if the aligned DKIM
\* result is "pass", the aligned SPF result is "pass" or the policy is
\* "none"; in every other case the disposition is the policy.
C2_NoneIffAlignedPassOrPolicyNone ==
  Returned =>
    /\ PolicyEvaluated.disposition = "none"
         <=> \/ PolicyEvaluated.dkim = "pass"
             \/ PolicyEvaluated.spf = "pass"
             \/ report_vars.policy = "none"
    /\ PolicyEvaluated.disposition # "none"
         => PolicyEvaluated.disposition = report_vars.policy

C2_Witness ==
  /\ Returned
  /\ report_vars.policy = "none"
  /\ PolicyEvaluated.dkim = "fail"
  /\ PolicyEvaluated.spf = "fail"
  /\ PolicyEvaluated.disposition = "none"

\* C3: the aligned DKIM result is "pass" exactly when the raw DKIM result is
\* "pass" and "fail" otherwise (an absent result and "none" included), and
\* likewise for SPF; no raw DKIM result, raw SPF "softfail" and policy
\* "quarantine" give "quarantine", "fail", "fail" and no DKIM auth result.
C3_AlignedResults ==
  Returned =>
    /\ PolicyEvaluated.dkim \in {"pass", "fail"}
    /\ PolicyEvaluated.spf \in {"pass", "fail"}
    /\ PolicyEvaluated.dkim = "pass" <=> report_vars.dkim_result = "pass"
    /\ PolicyEvaluated.spf = "pass" <=> report_vars.spf_result = "pass"
    /\ (/\ report_vars.dkim_result = None
        /\ report_vars.spf_result = "softfail"
        /\ report_vars.policy = "quarantine")
       => /\ PolicyEvaluated =
               [disposition |-> "quarantine", dkim |-> "fail", spf |-> "fail"]
          /\ AuthResults.dkim = <<>>

C3_Witness ==
  /\ Returned
  /\ report_vars.dkim_result = None
  /\ report_vars.spf_result = "none"
  /\ PolicyEvaluated.dkim = "fail"
  /\ PolicyEvaluated.spf = "fail"

\* C4: auth_results.dkim is empty when the raw DKIM result is absent and
\* holds the one entry {domain: reportee, result: raw DKIM result} when a
\* (non-empty) result is given; auth_results.spf holds the one entry
\* {domain: reportee, result: raw SPF result}; and the aligned results of
\* the row are those that follow from the raw results stored there.
C4_AuthResults ==
  Returned =>
    /\ report_vars.dkim_result = None => AuthResults.dkim = <<>>
    /\ report_vars.dkim_result \notin {None, ""} =>
         AuthResults.dkim = <<[domain |-> report_vars.reportee,
                               result |-> report_vars.dkim_result]>>
    /\ AuthResults.spf = <<[domain |-> report_vars.reportee,
                            result |-> report_vars.spf_result]>>
    /\ PolicyEvaluated.dkim =
         IF AuthResults.dkim # <<>> /\ AuthResults.dkim[1].result = "pass"
         THEN "pass" ELSE "fail"
    /\ PolicyEvaluated.spf =
         IF AuthResults.spf[1].result = "pass" THEN "pass" ELSE "fail"

C4_Witness ==
  /\ Returned
  /\ report_vars.dkim_result = "temperror"
  /\ Len(AuthResults.dkim) = 1
  /\ AuthResults.dkim[1].result = "temperror"
  /\ Len(AuthResults.spf) = 1

\* C5, as claimed: a call with a negative message_count, an SPF result that
\* is not one of the seven SPF values or a given DKIM result that is not one
\* of the seven DKIM values ends in InvalidInput and returns no report.
BadArguments ==
  \/ report_vars.message_count < 0
  \/ report_vars.spf_result \notin SpfResults
  \/ report_vars.dkim_result \notin DkimResults \cup {None}

C5_InvalidInputRaised ==
  (BadArguments /\ pc # "call") =>
    /\ err.type = "InvalidInput"
    /\ report_data = Unbound

\* C8, as claimed: date_range.begin is the epoch second of 00:00 UTC of the
\* day, whatever the timezone of the process.
C8_BeginIsUtcMidnight ==
  Returned =>
    report_data.report_metadata.date_range.begin =
      report_vars.day * SecondsPerDay

\* C9: in every report, date_range.end - date_range.begin is 86399 and
\* report_id is the reportee domain, ":" and the decimal date_range.end.
C9_DateRangeAndReportId ==
  Returned =>
    LET meta == report_data.report_metadata
    IN /\ meta.date_range.end - meta.date_range.begin = 86399
       /\ meta.report_id =
            report_vars.reportee \o ":" \o ToString(meta.date_range.end)

C9_Witness ==
  /\ Returned
  /\ report_vars.day = start_day + 1
  /\ utcoffset = 3600
  /\ report_data.report_metadata.report_id = "my-demo-domain.at:1483397999"

(***************************************************************************)
(* Properties of main and of validate, checked under Spec.                 *)
(***************************************************************************)
\* The path main writes the report of the k-th day of the d-th direction to.
ExpectedPath(d, k) ==
  LET dir == Directions[d]
      day == get_report_days(start_day, NumDays)[k]
  IN path_join(dir.base_path,
       get_report_filename_from_context(
         [report_metadata |->
            get_report_metadata(dir.reporter, dir.reportee, day, utcoffset),
          policy_published |->
            get_policy_published(dir.reportee, dir.policy)]))

\* Positions of main inside one iteration of the inner loop, and the
\* positions among them that lie inside validate.
InIteration == {"choose_dkim", "choose_spf", "choose_count", "assign_ip",
                "assemble", "render", "validate_report", "parse_xml",
                "parse_xsd", "build_schema", "assert_valid", "write"}
InValidate == {"parse_xml", "parse_xsd", "build_schema", "assert_valid"}

\* The reports (direction, day) whose iteration has run to its end.
CompletedReports ==
  {<<d, k>> \in (1..Len(Directions)) \X (1..NumDays) :
     \/ d < dir_i
     \/ d = dir_i /\ k < day_i
     \/ d = dir_i /\ k = day_i /\ pc \in {"for_day", "for_direction", "exit"}}

\* C6: validate parses the report before it parses or builds the schema, so
\* a schema object exists only once the report has been parsed, a document
\* is found invalid only if it is well-formed, and a report that is not
\* well-formed ends validate with the parse error of the report,
\* whatever the schema is like.
C6_ParseErrorBeforeSchema ==
  /\ (vstate.schema_xml \/ vstate.schema) => vstate.xml
  /\ pc \in {"parse_xsd", "build_schema", "assert_valid", "write"}
       => vstate.xml /\ report_xml_string.wellformed
  /\ err.type \in {"DocumentInvalid", "XMLSchemaParseError"}
       => vstate.xml /\ report_xml_string.wellformed
  /\ (pc = "raised" /\ err.at \in InValidate
        /\ ~report_xml_string.wellformed)
       => /\ err = [type |-> "XMLSyntaxError", at |-> "parse_xml"]
          /\ ~vstate.schema_xml
          /\ ~vstate.schema

C6_Witness ==
  /\ pc = "raised"
  /\ err = [type |-> "XMLSyntaxError", at |-> "parse_xml"]
  /\ ~report_xml_string.wellformed
  /\ ~schema.wellformed

\* C7: a file is written only from the point where its report has been
\* assembled, rendered and validated without an exception; every file
\* belongs to a report whose iteration ran to its end; and once a stage has
\* raised, the report at hand has no file and nothing is generated or written
\* any more.
C7_FilesOfCompleted ==
  /\ files \subseteq {ExpectedPath(r[1], r[2]) : r \in CompletedReports}
  /\ pc = "raised" => ExpectedPath(dir_i, day_i) \notin files

C7_Step ==
  /\ (files' # files \/ writes' # writes)
       => /\ pc = "write"
          /\ {"assembled", "rendered", "validated"} \subseteq progress
          /\ err = NoError
          /\ files' = files \cup {ExpectedPath(dir_i, day_i)}
  /\ pc = "raised"
       => /\ pc' = "raised"
          /\ files' = files
          /\ writes' = writes
          /\ report_data' = report_data
          /\ report_xml_string' = report_xml_string

C7_NoPartialFailure == [](C7_FilesOfCompleted) /\ [][C7_Step]_vars

C7_Witness ==
  /\ pc = "raised"
  /\ err.type = "DocumentInvalid"
  /\ dir_i = 1
  /\ day_i = 2
  /\ writes = 1
  /\ files = {ExpectedPath(1, 1)}

\* C10: when get_report_data is called, each of day, dkim_result,
\* spf_result, message_count and source_ip has been assigned in the current
\* iteration; the report built is the one the current values of report_vars
\* give; and a report once built changes only by being replaced by the next
\* call of get_report_data, not by the assignments to report_vars.
PerReportKeys == {"day", "dkim_result", "spf_result", "message_count",
                  "source_ip"}

C10_BuiltFromFreshValues ==
  /\ pc = "assemble" => PerReportKeys \subseteq fresh
  /\ (pc \in InIteration /\ "assembled" \in progress)
       => /\ PerReportKeys \subseteq fresh
          /\ report_data = get_report_data(report_vars, utcoffset)

C10_Step == report_data' # report_data => pc = "assemble"

C10_Independent == [](C10_BuiltFromFreshValues) /\ [][C10_Step]_vars

C10_Witness ==
  /\ pc = "choose_spf"
  /\ day_i = 2
  /\ report_vars.dkim_result = "pass"
  /\ report_data.records[1].row.policy_evaluated.dkim = "fail"
  /\ report_data.records[1].auth_results.dkim = <<>>

\* C11: the paths of the reports of all (direction, day) pairs are pairwise
\* distinct (they depend on the timezone only, and are compared whenever the
\* outer loop is at its head), so no write goes to a path written before: the number of files
\* equals the number of writes at every point of the run, and when main has
\* run to its end there is one file per report, two directions times the
\* number of days.
AllReports == (1..Len(Directions)) \X (1..NumDays)

C11_State ==
  /\ pc = "for_direction"
       => \A r1 \in AllReports : \A r2 \in AllReports :
            r1 # r2 => ExpectedPath(r1[1], r1[2]) # ExpectedPath(r2[1], r2[2])
  /\ Cardinality(files) = writes
  /\ pc = "exit"
       => /\ writes = Len(Directions) * NumDays
          /\ files = {ExpectedPath(r[1], r[2]) : r \in AllReports}

C11_Step ==
  writes' # writes
    => /\ path_join(report_vars.base_path, report_name) \notin files
       /\ path_join(report_vars.base_path, report_name) \in files'
       /\ Cardinality(files') = Cardinality(files) + 1

C11_NoOverwrite == [](C11_State) /\ [][C11_Step]_vars

C11_Witness ==
  /\ pc = "exit"
  /\ writes = Len(Directions) * NumDays
  /\ Cardinality(files) = Len(Directions) * NumDays
  /\ ExpectedPath(1, 1) \in files
  /\ ExpectedPath(Len(Directions), NumDays) \in files

====
